---- MODULE Spec2Model ----
(***************************************************************************)
(* Inline editing of notes in the react-book examples.                     *)
(*                                                                         *)
(* Three versions of the owner of the note collection appear in the        *)
(* sources, and a behaviour of this model runs one of them throughout, or  *)
(* ("paired") feeds the same commit calls to App.editNote and, in twin, to *)
(* Lane.edited over its store:                                             *)
(*   "controlled"  App of 04_editing_notes.md:182-233: the collection      *)
(*                 holds the editing flag; handlers activateNoteEdit and   *)
(*                 editNote (the version that resets the flag);            *)
(*   "tracked"     App of 04_editing_notes.md:360-400 with the Note        *)
(*                 component of lines 259-336, which keeps the editing     *)
(*                 flag in its own state and reports a new value through   *)
(*                 onEdit, bound by Notes to App.editNote;                 *)
(*   "lane"        Lane.jsx: the handlers delegate to the actions of a     *)
(*                 NoteStore (create / update / remove).                   *)
(*                                                                         *)
(* A string is a sequence of one-character strings.                        *)
(***************************************************************************)
EXTENDS Integers, Sequences, FiniteSets, TLC

VARIABLES
    program,      \* which version of the owner is mounted
    notes,        \* the collection: sequence of [id, task, editing]
    nextId,       \* the id generator: the next id it hands out
    last,         \* the handler called last: [kind, via, id, value]
    prev,         \* the collection before that call
    onEditProp,   \* whether the parent passed onEdit to Note
    onEditCalls,  \* per note: onEdit invocations of its current input session
    twin,         \* what the NoteStore behind Lane.edited would hold after the same calls
    blankSeen,    \* whether some commit so far carried a blank value
    scenario,     \* progress along the scenario of spec section 8, -1 once off it
    view,         \* what the last render shows: one element per note
    target        \* the position of the element that emitted the last signal, 0 for none

vars == <<program, notes, nextId, last, prev, onEditProp, onEditCalls,
          twin, blankSeen, scenario, view, target>>

----------------------------------------------------------------------------
(* Bounds and input sets *)

MaxAdds == 1

Programs == {"controlled", "tracked", "lane", "paired"}

\* The values a user can leave in the input: empty, whitespace only, plain,
\* and with a blank on either side.
Values ==
    { <<>>, <<" ", " ">>, <<"a", "a">>, <<" ", "a", " ">> }

Keys == {"Enter", "a"}

\* 'New note'
NewNote == <<"N", "e", "w", " ", "n", "o", "t", "e">>

\* The collection the scenario of spec section 8 starts from.
InitialNotes ==
    << [id |-> 1, task |-> <<"a">>, editing |-> FALSE],
       [id |-> 2, task |-> <<"b">>, editing |-> FALSE] >>

FirstFreeId == Len(InitialNotes) + 1

AllIds == 1 .. (Len(InitialNotes) + MaxAdds + 1)

----------------------------------------------------------------------------
(* Strings *)

RECURSIVE trimStart(_)
trimStart(s) ==
    IF s # <<>> /\ Head(s) = " " THEN trimStart(Tail(s)) ELSE s

RECURSIVE trimEnd(_)
trimEnd(s) ==
    IF s # <<>> /\ s[Len(s)] = " " THEN trimEnd(SubSeq(s, 1, Len(s) - 1)) ELSE s

\* String.prototype.trim
trim(s) == trimEnd(trimStart(s))

\* The truth value of a string in a condition: the empty string alone is false.
truthy(s) == Len(s) > 0

----------------------------------------------------------------------------
(* Collections *)

Ids(ns) == { ns[i].id : i \in 1 .. Len(ns) }

IdSeq(ns) == [ i \in 1 .. Len(ns) |-> ns[i].id ]

Item(ns, id) == CHOOSE n \in { ns[i] : i \in 1 .. Len(ns) } : n.id = id

\* The position of the note of that id.
Pos(ns, id) == CHOOSE i \in 1 .. Len(ns) : ns[i].id = id

\* The collection without its editing flags.
Tasks(ns) == [ i \in 1 .. Len(ns) |-> [id |-> ns[i].id, task |-> ns[i].task] ]

----------------------------------------------------------------------------
(* App, controlled version *)

\* activateNoteEdit without the comparison of ids.
activateNoteEditAll(ns, id) ==
    [ i \in 1 .. Len(ns) |-> [ns[i] EXCEPT !.editing = TRUE] ]

\* activateNoteEdit taking every other note out of Editing.
activateNoteEditOnly(ns, id) ==
    [ i \in 1 .. Len(ns) |-> [ns[i] EXCEPT !.editing = (ns[i].id = id)] ]

activateNoteEdit(ns, id) ==
    [ i \in 1 .. Len(ns) |->
        IF ns[i].id = id THEN [ns[i] EXCEPT !.editing = TRUE] ELSE ns[i] ]

\* editNote of the controlled version: the task argument is not used.
editNoteEditing(ns, id, task) ==
    [ i \in 1 .. Len(ns) |->
        IF ns[i].id = id THEN [ns[i] EXCEPT !.editing = FALSE] ELSE ns[i] ]

----------------------------------------------------------------------------
(* App, tracked version *)

\* editNote without the comparison of ids.
editNoteAnyId(ns, id, task) ==
    IF ~ truthy(trim(task))
    THEN ns
    ELSE [ i \in 1 .. Len(ns) |->
            IF truthy(task) THEN [ns[i] EXCEPT !.task = task] ELSE ns[i] ]

\* editNote storing the trimmed task.
editNoteTrimmed(ns, id, task) ==
    IF ~ truthy(trim(task))
    THEN ns
    ELSE [ i \in 1 .. Len(ns) |->
            IF ns[i].id = id /\ truthy(task)
            THEN [ns[i] EXCEPT !.task = trim(task)]
            ELSE ns[i] ]

\* editNote without its guard against blank values.
editNoteNoGuard(ns, id, task) ==
    [ i \in 1 .. Len(ns) |->
        IF ns[i].id = id /\ truthy(task)
        THEN [ns[i] EXCEPT !.task = task]
        ELSE ns[i] ]

editNote(ns, id, task) ==
    IF ~ truthy(trim(task))
    THEN ns
    ELSE [ i \in 1 .. Len(ns) |->
            IF ns[i].id = id /\ truthy(task)
            THEN [ns[i] EXCEPT !.task = task]
            ELSE ns[i] ]

----------------------------------------------------------------------------
(* NoteStore and the id generator *)

create(ns, id, task) ==
    Append(ns, [id |-> id, task |-> task, editing |-> FALSE])

update(ns, id, task) ==
    [ i \in 1 .. Len(ns) |->
        IF ns[i].id = id THEN [ns[i] EXCEPT !.task = task, !.editing = FALSE]
        ELSE ns[i] ]

RECURSIVE remove(_, _)
remove(ns, id) ==
    IF ns = <<>> THEN <<>>
    ELSE IF Head(ns).id = id THEN remove(Tail(ns), id)
    ELSE <<Head(ns)>> \o remove(Tail(ns), id)

\* The store's reaction to a call of one of its actions.
NoteStore(ns, call, id) ==
    CASE call.type = "create" -> create(ns, id, call.task)
      [] call.type = "update" -> update(ns, call.id, call.task)
      [] call.type = "remove" -> remove(ns, call.id)
      [] OTHER -> ns

----------------------------------------------------------------------------
(* Lane *)

\* addNote calling update in place of create.
addNoteUpdate == [type |-> "update", id |-> 1, task |-> NewNote]

\* The action Lane.addNote calls.
addNote == [type |-> "create", task |-> NewNote]

\* edited testing the trimmed value.
editedTrimTest(id, value) ==
    IF truthy(trim(value))
    THEN [type |-> "update", id |-> id, task |-> value]
    ELSE [type |-> "remove", id |-> id]

\* edited without its remove branch.
editedAlwaysUpdate(id, value) ==
    [type |-> "update", id |-> id, task |-> value]

\* edited passing the trimmed value on.
editedTrimmedValue(id, value) ==
    IF truthy(value)
    THEN [type |-> "update", id |-> id, task |-> trim(value)]
    ELSE [type |-> "remove", id |-> id]

\* edited with its two branches exchanged.
editedInverted(id, value) ==
    IF truthy(value)
    THEN [type |-> "remove", id |-> id]
    ELSE [type |-> "update", id |-> id, task |-> value]

\* The action Lane.edited calls.
edited(id, value) ==
    IF truthy(value)
    THEN [type |-> "update", id |-> id, task |-> value]
    ELSE [type |-> "remove", id |-> id]

----------------------------------------------------------------------------
(* Rendering.  An element is [view, value, callback]: the component rendered *)
(* and the props it is given; a callback is [fn, id], the handler of the     *)
(* owner and the id bound into it.                                           *)

NoCallback == [fn |-> "none", id |-> 0]

\* Editable with its two branches exchanged.
EditableSwapped(editing, value, onEdit, onValueClick) ==
    IF editing
    THEN [view |-> "Value", value |-> value, callback |-> onValueClick]
    ELSE [view |-> "Edit", value |-> value, callback |-> onEdit]

\* Editable: Edit with onEdit when editing, Value with onValueClick otherwise.
Editable(editing, value, onEdit, onValueClick) ==
    IF editing
    THEN [view |-> "Edit", value |-> value, callback |-> onEdit]
    ELSE [view |-> "Value", value |-> value, callback |-> onValueClick]

\* Notes binding the id of the first note into every callback.
NotesFirstId(ns) ==
    [ i \in 1 .. Len(ns) |->
        Editable(ns[i].editing, ns[i].task,
                 [fn |-> "onEdit", id |-> ns[1].id],
                 [fn |-> "onValueClick", id |-> ns[1].id]) ]

\* Notes of the controlled version: one Editable per note, the id of the note
\* bound into onValueClick and onEdit.
Notes(ns) ==
    [ i \in 1 .. Len(ns) |->
        Editable(ns[i].editing, ns[i].task,
                 [fn |-> "onEdit", id |-> ns[i].id],
                 [fn |-> "onValueClick", id |-> ns[i].id]) ]

\* Notes of the tracked version: one Note per note, the id of the note bound
\* into onEdit; Note.render shows the input in edit mode, the task otherwise.
NotesOfNote(ns, hasOnEdit) ==
    [ i \in 1 .. Len(ns) |->
        [view     |-> IF ns[i].editing THEN "input" ELSE "div",
         value    |-> ns[i].task,
         callback |-> IF hasOnEdit THEN [fn |-> "onEdit", id |-> ns[i].id]
                      ELSE NoCallback] ]

\* What the mounted program renders for a collection.
Render(prog, ns, hasOnEdit) ==
    CASE prog = "controlled" -> Notes(ns)
      [] prog = "tracked"    -> NotesOfNote(ns, hasOnEdit)
      [] OTHER               -> <<>>

----------------------------------------------------------------------------
(* Note *)

\* Note.edit on the component of note id: it enters edit mode.
edit(ns, id) ==
    [ i \in 1 .. Len(ns) |->
        IF ns[i].id = id THEN [ns[i] EXCEPT !.editing = TRUE] ELSE ns[i] ]

\* finishEdit that calls onEdit and stays in edit mode.
finishEditStays(ns, id, value, hasOnEdit) ==
    IF hasOnEdit THEN editNote(ns, id, value) ELSE ns

\* Note.finishEdit on the Note of the note id: this.props.onEdit (App.editNote
\* with the id Notes bound into it), then the component leaves edit mode;
\* nothing without an onEdit prop.
finishEdit(ns, id, value, hasOnEdit) ==
    LET onEdit(v) ==
            editNote(ns, NotesOfNote(ns, hasOnEdit)[Pos(ns, id)].callback.id, v)
    IN  IF hasOnEdit
        THEN [ i \in 1 .. Len(ns) |->
                IF ns[i].id = id
                THEN [onEdit(value)[i] EXCEPT !.editing = FALSE]
                ELSE onEdit(value)[i] ]
        ELSE ns

----------------------------------------------------------------------------
(* App: the handlers whose bodies the manuscript elides *)

\* App.addNote: a new note with a fresh id and the default task.
appAddNote(ns, id) ==
    Append(ns, [id |-> id, task |-> NewNote, editing |-> FALSE])

\* App.deleteNote: the collection without the note of that id.
deleteNote(ns, id) ==
    SelectSeq(ns, LAMBDA n : n.id # id)

----------------------------------------------------------------------------
(* The scenario of spec section 8 *)

ScenarioOps ==
    << [kind |-> "activate", id |-> 1, value |-> <<>>],
       [kind |-> "commit",   id |-> 1, value |-> <<"a", "a">>],
       [kind |-> "activate", id |-> 2, value |-> <<>>],
       [kind |-> "commit",   id |-> 2, value |-> <<" ", " ">>] >>

\* The scenario advances when the call is its next operation, made the way
\* the user makes it, and is left for good otherwise.
Advance(kind, via, id, value) ==
    IF /\ scenario >= 0
       /\ scenario < Len(ScenarioOps)
       /\ ScenarioOps[scenario + 1] = [kind |-> kind, id |-> id, value |-> value]
       /\ via # "call"
    THEN scenario + 1
    ELSE -1

\* The record of a call made by the element at position at, and the render
\* of the new collection.
CallAt(at, kind, via, id, value) ==
    /\ last' = [kind |-> kind, via |-> via, id |-> id, value |-> value]
    /\ prev' = notes
    /\ scenario' = Advance(kind, via, id, value)
    /\ target' = at
    /\ view' = Render(program, notes', onEditProp)
    /\ UNCHANGED <<program, onEditProp>>

\* The record of a call of a handler made without an element.
Call(kind, via, id, value) == CallAt(0, kind, via, id, value)

Blank(value) == ~ truthy(trim(value))

----------------------------------------------------------------------------
(* Initial state *)

Init ==
    /\ program \in Programs
    /\ notes = InitialNotes
    /\ nextId = FirstFreeId
    /\ last = [kind |-> "none", via |-> "none", id |-> 0, value |-> <<>>]
    /\ prev = InitialNotes
    /\ onEditProp \in BOOLEAN
    /\ (program # "tracked" => onEditProp = FALSE)
    /\ onEditCalls = [id \in AllIds |-> 0]
    /\ twin = InitialNotes
    /\ blankSeen = FALSE
    /\ scenario = 0
    /\ view = Render(program, notes, onEditProp)
    /\ target = 0

----------------------------------------------------------------------------
(* Controlled App *)

\* A click on the value of a note: Value.onValueClick, bound to the id by Notes.
ActivateNoteEdit(id) ==
    /\ program = "controlled"
    /\ notes' = activateNoteEdit(notes, id)
    /\ Call("activate", "activateNoteEdit", id, <<>>)
    /\ UNCHANGED <<nextId, onEditCalls, twin, blankSeen>>

\* A click on the rendered Value at position i: its onValueClick, which Notes
\* bound to an id, is App.activateNoteEdit.
ValueClick(i) ==
    /\ program = "controlled"
    /\ i \in 1 .. Len(view)
    /\ view[i].view = "Value"
    /\ notes' = activateNoteEdit(notes, view[i].callback.id)
    /\ CallAt(i, "activate", "click", view[i].callback.id, <<>>)
    /\ UNCHANGED <<nextId, onEditCalls, twin, blankSeen>>

EditNoteEditing(id, task) ==
    /\ program = "controlled"
    /\ notes' = editNoteEditing(notes, id, task)
    /\ Call("commit", "editNote", id, task)
    /\ blankSeen' = (blankSeen \/ Blank(task))
    /\ UNCHANGED <<nextId, onEditCalls, twin>>

DeleteNote(id) ==
    /\ program = "controlled"
    /\ notes' = deleteNote(notes, id)
    /\ Call("remove", "deleteNote", id, <<>>)
    /\ UNCHANGED <<nextId, onEditCalls, twin, blankSeen>>

\* The + button of either App.
AddNote ==
    /\ program \in {"controlled", "tracked"}
    /\ nextId < FirstFreeId + MaxAdds
    /\ notes' = appAddNote(notes, nextId)
    /\ nextId' = nextId + 1
    /\ Call("add", "addNote", nextId, <<>>)
    /\ UNCHANGED <<onEditCalls, twin, blankSeen>>

----------------------------------------------------------------------------
(* Tracked App and its Note components; the paired handlers *)

\* A click on a note that shows its task: Note.edit mounts the input.
NoteEdit(id) ==
    /\ program = "tracked"
    /\ id \in Ids(notes)
    /\ ~ Item(notes, id).editing
    /\ notes' = edit(notes, id)
    /\ onEditCalls' = [onEditCalls EXCEPT ![id] = 0]
    /\ CallAt(Pos(notes, id), "activate", "click", id, <<>>)
    /\ UNCHANGED <<nextId, twin, blankSeen>>

\* What finishEdit does to the state, the input of note id holding value.
FinishEdit(id, value, via) ==
    /\ notes' = finishEdit(notes, id, value, onEditProp)
    /\ onEditCalls' =
         IF onEditProp THEN [onEditCalls EXCEPT ![id] = @ + 1] ELSE onEditCalls
    /\ blankSeen' = (blankSeen \/ (onEditProp /\ Blank(value)))
    /\ CallAt(Pos(notes, id), "commit", via,
              IF onEditProp THEN view[Pos(notes, id)].callback.id ELSE id, value)
    /\ UNCHANGED <<nextId, twin>>

\* A key pressed in the input of a note: Note.checkEnter.
NoteCheckEnter(id, key, value) ==
    /\ program = "tracked"
    /\ id \in Ids(notes)
    /\ Item(notes, id).editing
    /\ IF key = "Enter"
       THEN FinishEdit(id, value, "enter")
       ELSE UNCHANGED vars

\* The input of a note loses the focus: onBlur is Note.finishEdit.
NoteBlur(id, value) ==
    /\ program = "tracked"
    /\ id \in Ids(notes)
    /\ Item(notes, id).editing
    /\ FinishEdit(id, value, "blur")

\* App.editNote called with any id, as the owner's commit entry point, and
\* Lane.edited called with the same arguments on the twin collection.
EditNote(id, task) ==
    /\ program = "paired"
    /\ notes' = editNote(notes, id, task)
    /\ twin' = NoteStore(twin, edited(id, task), 0)
    /\ blankSeen' = (blankSeen \/ Blank(task))
    /\ Call("commit", "call", id, task)
    /\ UNCHANGED <<nextId, onEditCalls>>

----------------------------------------------------------------------------
(* Lane *)

LaneAddNote ==
    /\ program = "lane"
    /\ nextId < FirstFreeId + MaxAdds
    /\ notes' = NoteStore(notes, addNote, nextId)
    /\ nextId' = nextId + 1
    /\ Call("add", "addNote", nextId, <<>>)
    /\ UNCHANGED <<onEditCalls, twin, blankSeen>>

LaneEdited(id, value) ==
    /\ program = "lane"
    /\ notes' = NoteStore(notes, edited(id, value), 0)
    /\ blankSeen' = (blankSeen \/ Blank(value))
    /\ Call("commit", "edited", id, value)
    /\ UNCHANGED <<nextId, onEditCalls, twin>>

----------------------------------------------------------------------------

Next ==
    \/ \E id \in AllIds : ActivateNoteEdit(id)
    \/ \E i \in 1 .. Len(notes) : ValueClick(i)
    \/ \E id \in AllIds, task \in Values : EditNoteEditing(id, task)
    \/ \E id \in AllIds : DeleteNote(id)
    \/ AddNote
    \/ \E id \in AllIds : NoteEdit(id)
    \/ \E id \in AllIds, key \in Keys, value \in Values : NoteCheckEnter(id, key, value)
    \/ \E id \in AllIds, value \in Values : NoteBlur(id, value)
    \/ \E id \in AllIds, task \in Values : EditNote(id, task)
    \/ LaneAddNote
    \/ \E id \in AllIds, value \in Values : LaneEdited(id, value)

Spec == Init /\ [][Next]_vars

----------------------------------------------------------------------------
(* Vocabulary of the properties *)

\* The collection without the item of that id, order kept.
Without(ns, id) == SelectSeq(ns, LAMBDA n : n.id # id)

\* The last call was a commit that reached the owner.
Committed ==
    /\ last.kind = "commit"
    /\ (program = "tracked" => onEditProp)

\* The committed item was in Editing.  Lane and the paired handlers keep no
\* editing flag in the collection: there the item only has to be present.
InEditing ==
    /\ last.id \in Ids(prev)
    /\ (program \in {"controlled", "tracked"} => Item(prev, last.id).editing)

DistinctIds(ns) == Cardinality(Ids(ns)) = Len(ns)

----------------------------------------------------------------------------
(* C1 *)

\* C1 as claimed: a commit of an empty or whitespace-only value on an item in
\* Editing removes exactly that item and leaves every other item unchanged.
C1_BlankCommitRemoves ==
    (Committed /\ InEditing /\ Blank(last.value)) =>
        /\ last.id \notin Ids(notes)
        /\ notes = Without(prev, last.id)

\* C1 amended: on an item in Editing, Lane.edited with the empty string
\* removes exactly that item and leaves the others unchanged; Lane.edited with
\* a whitespace-only value stores it as typed and removes nothing; a blank
\* commit through App.editNote (either version) removes nothing and changes no
\* id and no task.
C1_BlankCommit ==
    (Committed /\ InEditing /\ Blank(last.value)) =>
        IF program = "lane"
        THEN IF last.value = <<>>
             THEN /\ last.id \notin Ids(notes)
                  /\ notes = Without(prev, last.id)
             ELSE /\ IdSeq(notes) = IdSeq(prev)
                  /\ Item(notes, last.id).task = last.value
                  /\ Without(notes, last.id) = Without(prev, last.id)
        ELSE Tasks(notes) = Tasks(prev)

\* Lane.edited has removed an item with the empty string, another one staying.
C1_Witness ==
    /\ program = "lane"
    /\ last.kind = "commit"
    /\ last.value = <<>>
    /\ last.id \in Ids(prev)
    /\ Len(prev) = 2
    /\ Len(notes) = 1

----------------------------------------------------------------------------
(* C2 *)

\* C2 as claimed: a commit of a non-blank value X on an item in Editing leaves
\* that item with value X and editing false, and every other item unchanged.
C2_CommitSetsValue ==
    (Committed /\ InEditing /\ ~ Blank(last.value)) =>
        /\ IdSeq(notes) = IdSeq(prev)
        /\ Item(notes, last.id).task = last.value
        /\ ~ Item(notes, last.id).editing
        /\ Without(notes, last.id) = Without(prev, last.id)

----------------------------------------------------------------------------
(* C3 *)

\* C3: after activate(id) on an item of the collection, that item's editing
\* flag is true, its value is unchanged, and every other item is unchanged.
C3_Activate ==
    (last.kind = "activate" /\ last.id \in Ids(prev)) =>
        /\ IdSeq(notes) = IdSeq(prev)
        /\ Item(notes, last.id).editing
        /\ Item(notes, last.id).task = Item(prev, last.id).task
        /\ Without(notes, last.id) = Without(prev, last.id)

\* App.activateNoteEdit has activated one item while the other was in Viewing.
C3_Witness ==
    /\ program = "controlled"
    /\ last.kind = "activate"
    /\ last.id \in Ids(prev)
    /\ ~ Item(prev, last.id).editing
    /\ \E n \in { notes[i] : i \in 1 .. Len(notes) } : ~ n.editing

----------------------------------------------------------------------------
(* C4 *)

\* C4: in one session of the input of a Note (from its mount by Note.edit to
\* its teardown), onEdit is invoked at most once, and exactly once when an
\* Enter or a blur has ended the session; after that commit the input is gone,
\* so a blur that follows Enter cannot invoke onEdit again.
C4_OnEditOnce ==
    (program = "tracked" /\ onEditProp) =>
        /\ \A id \in AllIds : onEditCalls[id] <= 1
        /\ (last.kind = "commit" =>
               /\ onEditCalls[last.id] = 1
               /\ ~ Item(notes, last.id).editing)
        /\ \A id \in Ids(notes) :
               (Item(notes, id).editing => onEditCalls[id] = 0)

\* Enter has ended a session of the input with onEdit wired.
C4_Witness ==
    /\ program = "tracked"
    /\ onEditProp
    /\ last.kind = "commit"
    /\ last.via = "enter"
    /\ onEditCalls[last.id] = 1

----------------------------------------------------------------------------
(* C5 *)

\* C5: a commit with an id that is not in the collection changes nothing,
\* whatever the value, and the handlers are defined on it.
C5_UnknownIdCommit ==
    (last.kind = "commit" /\ last.id \notin Ids(prev)) =>
        notes = prev

\* App.editNote has been called with a non-blank value and an unknown id.
C5_Witness ==
    /\ program = "paired"
    /\ last.kind = "commit"
    /\ last.id \notin Ids(prev)
    /\ ~ Blank(last.value)

----------------------------------------------------------------------------
(* C6 *)

\* C6: add() appends one item, with an id that was not in the collection and
\* editing false, and keeps the items that were there; the ids of the
\* collection are pairwise distinct in every reachable state.
C6_Add ==
    /\ DistinctIds(notes)
    /\ (last.kind = "add" =>
           /\ Len(notes) = Len(prev) + 1
           /\ SubSeq(notes, 1, Len(prev)) = prev
           /\ notes[Len(notes)].id \notin Ids(prev)
           /\ ~ notes[Len(notes)].editing)

\* Lane.addNote has added a note to a collection from which one was removed.
C6_Witness ==
    /\ program = "lane"
    /\ last.kind = "add"
    /\ Len(prev) = 1
    /\ Len(notes) = 2

----------------------------------------------------------------------------
(* C7 *)

\* C7: remove(id) with an id that is not in the collection changes nothing;
\* with an id that is in it, it removes that item whatever its editing flag
\* and leaves the others unchanged.  The removals are App.deleteNote and the
\* remove branch of Lane.edited.
C7_Remove ==
    (\/ last.kind = "remove"
     \/ (program = "lane" /\ last.kind = "commit" /\ last.value = <<>>)) =>
        /\ last.id \notin Ids(notes)
        /\ notes = Without(prev, last.id)
        /\ (last.id \notin Ids(prev) => notes = prev)

\* App.deleteNote has removed an item that was in Editing.
C7_Witness ==
    /\ program = "controlled"
    /\ last.kind = "remove"
    /\ last.id \in Ids(prev)
    /\ Item(prev, last.id).editing
    /\ Len(notes) = Len(prev) - 1

----------------------------------------------------------------------------
(* C8 *)

\* C8 as claimed: after the same commit calls, App.editNote and Lane.edited
\* over its store hold the same collection, blank values included.
C8_SameCollection ==
    program = "paired" => Tasks(notes) = Tasks(twin)

\* C8 amended: after the same commit calls, none of them with a blank value,
\* App.editNote and Lane.edited over its store hold the same ids and values.
C8_SameUnlessBlank ==
    (program = "paired" /\ ~ blankSeen) => Tasks(notes) = Tasks(twin)

\* Both owners have stored a non-blank value.
C8_Witness ==
    /\ program = "paired"
    /\ ~ blankSeen
    /\ last.kind = "commit"
    /\ last.id \in Ids(prev)
    /\ Item(notes, last.id).task = last.value
    /\ Item(twin, last.id).task = last.value

----------------------------------------------------------------------------
(* C9 *)

S1 == << [id |-> 1, task |-> <<"a">>, editing |-> TRUE],
         [id |-> 2, task |-> <<"b">>, editing |-> FALSE] >>

S2 == << [id |-> 1, task |-> <<"a", "a">>, editing |-> FALSE],
         [id |-> 2, task |-> <<"b">>, editing |-> FALSE] >>

S3 == << [id |-> 1, task |-> <<"a", "a">>, editing |-> FALSE],
         [id |-> 2, task |-> <<"b">>, editing |-> TRUE] >>

S4 == << [id |-> 1, task |-> <<"a", "a">>, editing |-> FALSE] >>

\* C9 as claimed: activate(1), commit(1,"aa"), activate(2), commit(2,"  ") from
\* the two items (1,"a",false), (2,"b",false) passes through S1 and S2 and ends
\* with the collection holding only (1,"aa",false).  Stated of the Note
\* components wired to App.editNote, the version in which a commit both stores
\* the value and leaves edit mode.
C9_ScenarioRemoves ==
    (program = "tracked" /\ onEditProp) =>
        /\ (scenario = 1 => notes = S1)
        /\ (scenario = 2 => notes = S2)
        /\ (scenario = 4 => notes = S4)

\* C9 amended: with the Note components wired to App.editNote, the sequence
\* passes through S1, S2 and S3 and ends with both items, (1,"aa",false) and
\* (2,"b",false): the whitespace-only commit leaves item 2 as it was.  In no
\* version of the owner does the sequence remove item 2.
C9_ScenarioKeeps ==
    /\ (program = "tracked" /\ onEditProp) =>
           /\ (scenario = 1 => notes = S1)
           /\ (scenario = 2 => notes = S2)
           /\ (scenario = 3 => notes = S3)
           /\ (scenario = 4 => notes = S2)
    /\ (scenario = 4 => IdSeq(notes) = <<1, 2>>)

\* The four operations of the scenario have run on the wired Note components.
C9_Witness ==
    /\ program = "tracked"
    /\ onEditProp
    /\ scenario = 4

----------------------------------------------------------------------------
(* C10 *)

\* C10 as claimed: a non-blank committed value with leading or trailing
\* whitespace is stored trimmed.
C10_StoredTrimmed ==
    (/\ program \in {"tracked", "paired", "lane"}
     /\ Committed
     /\ last.id \in Ids(prev)
     /\ ~ Blank(last.value)
     /\ trim(last.value) # last.value) =>
        Item(notes, last.id).task = trim(last.value)

\* C10 amended: a non-blank committed value with leading or trailing
\* whitespace is stored as typed, whitespace included, by App.editNote and by
\* Lane.edited.
C10_StoredAsTyped ==
    (/\ program \in {"tracked", "paired", "lane"}
     /\ Committed
     /\ last.id \in Ids(prev)
     /\ ~ Blank(last.value)
     /\ trim(last.value) # last.value) =>
        /\ Item(notes, last.id).task = last.value
        /\ ((program = "paired" /\ last.id \in Ids(twin)) =>
               Item(twin, last.id).task = last.value)

\* Lane.edited has stored a value with a leading and a trailing blank.
C10_Witness ==
    /\ program = "lane"
    /\ last.kind = "commit"
    /\ last.id \in Ids(prev)
    /\ last.value = <<" ", "a", " ">>
    /\ Item(notes, last.id).task = <<" ", "a", " ">>

----------------------------------------------------------------------------
(* C11 *)

\* C11: Editable renders Edit, given the commit callback, when the editing
\* flag it is handed is true, and Value, given the activation callback,
\* otherwise.  After any history of renders and events the branch shown for a
\* note is the one of its current editing flag, and the value shown is the
\* note's value as it is, blank or not.
C11_EditableBranch ==
    program = "controlled" =>
        /\ Len(view) = Len(notes)
        /\ \A i \in 1 .. Len(notes) :
              /\ view[i].view = (IF notes[i].editing THEN "Edit" ELSE "Value")
              /\ view[i].callback.fn =
                    (IF notes[i].editing THEN "onEdit" ELSE "onValueClick")
              /\ view[i].value = notes[i].task

\* A note went to Editing and back, and is shown as Value again beside a note
\* shown as Edit.
C11_Witness ==
    /\ program = "controlled"
    /\ last.kind = "commit"
    /\ last.id \in Ids(prev)
    /\ Item(prev, last.id).editing
    /\ view[Pos(notes, last.id)].view = "Value"
    /\ \E i \in 1 .. Len(view) : view[i].view = "Edit"

----------------------------------------------------------------------------
(* C12 *)

\* C12: every callback rendered for a note carries the id of that note; a
\* signal emitted by the element of a note reaches the owner's handler with
\* the id of that note (and, for a commit, the value typed), the other notes
\* stay as they were, and no note is added, removed or moved.
C12_BoundIds ==
    /\ \A i \in 1 .. Len(view) :
          /\ Len(view) = Len(notes)
          /\ (view[i].callback # NoCallback => view[i].callback.id = notes[i].id)
    /\ (target # 0 =>
          /\ last.id = prev[target].id
          /\ IdSeq(notes) = IdSeq(prev)
          /\ Without(notes, prev[target].id) = Without(prev, prev[target].id)
          /\ ((Committed /\ ~ Blank(last.value)) =>
                 notes[target].task = last.value))

\* A click on the second Value has reached App.activateNoteEdit with the id of
\* the second note.
C12_Witness ==
    /\ program = "controlled"
    /\ target = 2
    /\ last.kind = "activate"
    /\ last.id = prev[2].id
    /\ notes[2].editing
    /\ ~ notes[1].editing

----------------------------------------------------------------------------
(* C13 *)

\* C13: editing is not exclusive.  activate(b) while another item a is in
\* Editing leaves a in Editing and puts b in Editing, and a commit on one item
\* leaves the editing flag of every other item as it was.
C13_NoExclusivity ==
    /\ (last.kind = "activate" /\ last.id \in Ids(prev)) =>
          /\ Item(notes, last.id).editing
          /\ \A i \in 1 .. Len(prev) :
                (prev[i].id # last.id /\ prev[i].editing) =>
                    Item(notes, prev[i].id).editing
    /\ last.kind = "commit" =>
          \A i \in 1 .. Len(prev) :
              (prev[i].id # last.id) =>
                  /\ prev[i].id \in Ids(notes)
                  /\ Item(notes, prev[i].id).editing = prev[i].editing

\* Two items were in Editing together, and a commit on one of them has left
\* the other in Editing.
C13_Witness ==
    /\ last.kind = "commit"
    /\ last.id \in Ids(prev)
    /\ Item(prev, last.id).editing
    /\ ~ Item(notes, last.id).editing
    /\ \E i \in 1 .. Len(prev) :
          /\ prev[i].id # last.id
          /\ prev[i].editing
          /\ Item(notes, prev[i].id).editing

----------------------------------------------------------------------------
(* C14 *)

\* C14: activate(id) and a commit of a non-blank value leave the sequence of
\* ids of the collection as it was; when that sequence changes, the call was
\* add(), remove(id) or a commit of a blank value.
C14_IdsKept ==
    /\ (\/ last.kind = "activate"
        \/ (last.kind = "commit" /\ ~ Blank(last.value))) =>
          IdSeq(notes) = IdSeq(prev)
    /\ IdSeq(notes) # IdSeq(prev) =>
          \/ last.kind \in {"add", "remove"}
          \/ (last.kind = "commit" /\ Blank(last.value))

\* Lane.edited has stored a non-blank value in a note of the collection.
C14_Witness ==
    /\ program = "lane"
    /\ last.kind = "commit"
    /\ ~ Blank(last.value)
    /\ last.id \in Ids(prev)
    /\ notes # prev
    /\ IdSeq(notes) = IdSeq(prev)

----------------------------------------------------------------------------
(* C15 *)

\* C15 as claimed: in the Note that tracks its own editing flag, a blur or an
\* Enter received in edit mode leaves the component out of edit mode, with or
\* without an onEdit prop.
C15_CommitLeavesEditMode ==
    (/\ program = "tracked"
     /\ last.kind = "commit"
     /\ last.via \in {"enter", "blur"}) =>
        ~ Item(notes, last.id).editing

====
